---- MODULE Spec2Model ----
(***************************************************************************)
(* Model of franchiseSU_app.py: the projection / appraisal / sensitivity / *)
(* recommendation engine of the franchise dashboard.                        *)
(*                                                                         *)
(* Python floats are modelled as exact rationals.  TLC integers are 32 bit, *)
(* and a ten-year compounding at rates such as 107/100 needs numbers of     *)
(* 40 and more digits, so naturals are sequences of base-10000 limbs and a  *)
(* rational is  s * n * PRODUCT a^e[a]  with s the sign, n a natural and e  *)
(* a map from natural "atoms" to (positive or negative) exponents; k tags   *)
(* the record as a number (None and nan are records of another tag).       *)
(* Rationals are compared with RCmp, never structurally.                    *)
(***************************************************************************)
EXTENDS Integers, Sequences, FiniteSets, TLC

(***************************************************************************)
(* Natural numbers: little-endian limb sequences without leading zeros.    *)
(***************************************************************************)
BASE == 100 * 100

\* The element of a singleton set.  Only({body : x \in {e}}) is body with x
\* bound to the value of e: a bound variable holds a value, where a LET
\* definition is an expression that is evaluated wherever it is used.
Only(S) == CHOOSE x \in S : TRUE

RECURSIVE Strip(_)
Strip(a) == IF a = <<>> THEN a
            ELSE IF a[Len(a)] = 0 THEN Strip(SubSeq(a, 1, Len(a) - 1)) ELSE a

RECURSIVE AddC(_, _, _)
AddC(a, b, c) ==
    IF a = <<>> /\ b = <<>> THEN (IF c = 0 THEN <<>> ELSE <<c>>)
    ELSE LET t == (IF a = <<>> THEN 0 ELSE a[1]) + (IF b = <<>> THEN 0 ELSE b[1]) + c
         IN <<t % BASE>> \o AddC(IF a = <<>> THEN a ELSE Tail(a),
                                 IF b = <<>> THEN b ELSE Tail(b), t \div BASE)

NAdd(a, b) == AddC(a, b, 0)

RECURSIVE SubB(_, _, _)
SubB(a, b, c) ==
    IF a = <<>> THEN <<>>
    ELSE LET t == a[1] - (IF b = <<>> THEN 0 ELSE b[1]) - c
         IN <<(t + BASE) % BASE>> \o SubB(Tail(a), IF b = <<>> THEN b ELSE Tail(b),
                                          IF t < 0 THEN 1 ELSE 0)

\* a - b for a >= b
NSub(a, b) == Strip(SubB(a, b, 0))

RECURSIVE MulLimb(_, _, _)
MulLimb(a, k, c) ==
    IF a = <<>> THEN (IF c = 0 THEN <<>> ELSE <<c>>)
    ELSE LET t == a[1] * k + c
         IN <<t % BASE>> \o MulLimb(Tail(a), k, t \div BASE)

Shift(a, k) == IF a = <<>> THEN a ELSE [i \in 1..k |-> 0] \o a

RECURSIVE NMul(_, _)
NMul(a, b) ==
    IF a = <<>> \/ b = <<>> THEN <<>>
    ELSE IF Len(b) = 1 THEN Strip(MulLimb(a, b[1], 0))
    ELSE LET h == Len(b) \div 2
             lo == NMul(a, Strip(SubSeq(b, 1, h)))
             hi == NMul(a, SubSeq(b, h + 1, Len(b)))
         IN NAdd(lo, Shift(hi, h))

RECURSIVE CmpAt(_, _, _)
CmpAt(a, b, i) ==
    IF i = 0 THEN 0
    ELSE IF a[i] < b[i] THEN -1 ELSE IF a[i] > b[i] THEN 1 ELSE CmpAt(a, b, i - 1)

NCmp(a, b) ==
    IF Len(a) < Len(b) THEN -1
    ELSE IF Len(a) > Len(b) THEN 1 ELSE CmpAt(a, b, Len(a))

RECURSIVE NPow(_, _)
NPow(a, k) ==
    IF k = 0 THEN <<1>>
    ELSE IF k = 1 THEN a
    ELSE LET h == NPow(a, k \div 2)
         IN IF k % 2 = 0 THEN NMul(h, h) ELSE NMul(a, NMul(h, h))

\* the limbs of a TLC natural
Nat2N(k) == Strip(<<k % BASE, (k \div BASE) % BASE, k \div (BASE * BASE)>>)

(***************************************************************************)
(* Rationals.                                                              *)
(***************************************************************************)
Ex(e, a) == IF a \in DOMAIN e THEN e[a] ELSE 0

Atoms(e1, e2) == DOMAIN e1 \cup DOMAIN e2

NoZero(D, f) == [a \in {x \in D : f[x] # 0} |-> f[a]]

RECURSIVE Prod(_, _)
\* PRODUCT of a^f[a] over a in D, all f[a] >= 0
Prod(D, f) ==
    IF D = {} THEN <<1>>
    ELSE LET a == CHOOSE x \in D : TRUE
         IN NMul(NPow(a, f[a]), Prod(D \ {a}, f))

Sgn(k) == IF k < 0 THEN -1 ELSE IF k > 0 THEN 1 ELSE 0

Min(i, j) == IF i < j THEN i ELSE j

RZero == [k |-> "num", s |-> 0, n |-> <<>>, e |-> <<>>]

\* an integer literal
RI(k) == IF k = 0 THEN RZero
         ELSE [k |-> "num", s |-> Sgn(k), n |-> Nat2N(IF k < 0 THEN -k ELSE k), e |-> <<>>]

RNeg(x) == [x EXCEPT !.s = -x.s]

RAbs(x) == [x EXCEPT !.s = x.s * x.s]

RMul(x, y) ==
    IF x.s = 0 \/ y.s = 0 THEN RZero
    ELSE LET D == Atoms(x.e, y.e)
         IN [k |-> "num", s |-> x.s * y.s, n |-> NMul(x.n, y.n),
             e |-> NoZero(D, [a \in D |-> Ex(x.e, a) + Ex(y.e, a)])]

\* 1 / x for x # 0: the numerator becomes an atom of exponent -1
RInv(x) ==
    LET D == DOMAIN x.e \cup (IF x.n = <<1>> THEN {} ELSE {x.n})
    IN [k |-> "num", s |-> x.s, n |-> <<1>>,
        e |-> NoZero(D, [a \in D |-> (IF a = x.n THEN -1 ELSE 0) - Ex(x.e, a)])]

RDiv(x, y) == RMul(x, RInv(y))

\* x ** k for a natural k; the base stays an atom, so that powers of one
\* base share their factors
RPow(x, k) ==
    IF k = 0 THEN RI(1)
    ELSE IF x.s = 0 THEN RZero
    ELSE LET D == DOMAIN x.e \cup (IF x.n = <<1>> THEN {} ELSE {x.n})
         IN [k |-> "num", s |-> IF k % 2 = 0 THEN 1 ELSE x.s, n |-> <<1>>,
             e |-> NoZero(D, [a \in D |-> k * ((IF a = x.n THEN 1 ELSE 0) + Ex(x.e, a))])]

\* the common factor PRODUCT a^g[a] of x and y (g may be negative: a common
\* denominator) and what is left of each numerator
Common(x, y) ==
    LET D == Atoms(x.e, y.e)
        g == [a \in D |-> Min(Ex(x.e, a), Ex(y.e, a))]
    IN [g  |-> g,
        xn |-> NMul(x.n, Prod(D, [a \in D |-> Ex(x.e, a) - g[a]])),
        yn |-> NMul(y.n, Prod(D, [a \in D |-> Ex(y.e, a) - g[a]]))]

\* -1, 0, 1 as x < y, x = y, x > y
RCmp(x, y) ==
    IF x.s # y.s THEN (IF x.s < y.s THEN -1 ELSE 1)
    ELSE IF x.s = 0 THEN 0
    ELSE Only({x.s * NCmp(c.xn, c.yn) : c \in {Common(x, y)}})

\* s * a + t * b for naturals a and b and signs s and t (none zero), times
\* the factor PRODUCT a^g[a]
Signed(s, a, t, b, g) ==
    IF s = t THEN [k |-> "num", s |-> s, n |-> NAdd(a, b), e |-> g]
    ELSE Only({IF m = 0 THEN RZero
               ELSE IF m > 0 THEN [k |-> "num", s |-> s, n |-> NSub(a, b), e |-> g]
               ELSE [k |-> "num", s |-> t, n |-> NSub(b, a), e |-> g] :
               m \in {NCmp(a, b)}})

RAdd(x, y) ==
    IF x.s = 0 THEN y
    ELSE IF y.s = 0 THEN x
    ELSE Only({Signed(x.s, c.xn, y.s, c.yn, NoZero(DOMAIN c.g, c.g)) :
               c \in {Common(x, y)}})

RSub(x, y) == RAdd(x, RNeg(y))

REq(x, y) == RCmp(x, y) = 0
RLt(x, y) == RCmp(x, y) < 0
RLe(x, y) == RCmp(x, y) <= 0
RGt(x, y) == RCmp(x, y) > 0
RGe(x, y) == RCmp(x, y) >= 0

RMax(x, y) == IF RGe(x, y) THEN x ELSE y

\* p / q for integers p and q > 0
RQ(p, q) == RDiv(RI(p), RI(q))

(***************************************************************************)
(* State.  One run of each specification draws the inputs of one operation *)
(* and applies it; pc is the position of the run.                          *)
(***************************************************************************)
VARIABLES
    pc,
    \* calculate_npv_metrics: arguments and returned triple
    initial_investment, cash_flows, discount_rate,
    npv, irr, payback_period,
    \* create_tornado_plot: the caller's dict, the base NPV, the sorted entries
    \* and the params dict of each calculate_sensitivity_npv call
    base_params, base_npv, sensitivity_results, calls,
    \* generate_investment_report: what the call did
    report,
    \* financial_analysis_tab: the widgets' values and st.session_state
    widgets, session_state,
    \* the projection: the arguments of calculate_scenario_revenues and
    \* calculate_adjusted_margins, and the two series they return
    projection, projected_revenues, projected_margins,
    \* calculate_financials: its argument and the dict it returns
    financials_revenue, baseline_metrics,
    \* startup_costs_tab: the catalog default_startup_costs
    startup_catalog

vars == <<pc, initial_investment, cash_flows, discount_rate, npv, irr, payback_period,
          base_params, base_npv, sensitivity_results, calls, report, widgets, session_state,
          projection, projected_revenues, projected_margins,
          financials_revenue, baseline_metrics, startup_catalog>>

\* the variables of the projection, of calculate_financials and the catalog
projection_vars == <<projection, projected_revenues, projected_margins>>
financials_vars == <<financials_revenue, baseline_metrics>>

\* Python's None, a float nan, and a value not yet computed
None == [k |-> "None"]
NaN == [k |-> "nan"]
Unset == [k |-> "unset"]

IsNum(v) == v.k = "num"

\* years = range(1, 11)
Horizon == 10
years == 1..Horizon

(***************************************************************************)
(* calculate_npv_metrics                                                   *)
(***************************************************************************)
RECURSIVE RSum(_, _)
\* values[1] + ... + values[k], summed left to right
RSum(values, k) == IF k = 0 THEN RZero ELSE RAdd(RSum(values, k - 1), values[k])

\* faulty variant: the values are compounded, not discounted
npf_npv_compounded(rate, values) ==
    RSum([i \in 1..Len(values) |-> RMul(values[i], RPow(RAdd(RI(1), rate), i - 1))],
         Len(values))

\* npf.npv(rate, values) = sum over t = 0.. of values[t] / (1 + rate) ** t
\* (values[t] of the source is values[t + 1] here)
npf_npv(rate, values) ==
    RSum([i \in 1..Len(values) |-> RDiv(values[i], RPow(RAdd(RI(1), rate), i - 1))],
         Len(values))

RECURSIVE cumsum_to(_, _)
cumsum_to(values, k) ==
    IF k = 0 THEN <<>>
    ELSE LET prev == cumsum_to(values, k - 1)
         IN Append(prev, IF k = 1 THEN values[1] ELSE RAdd(prev[k - 1], values[k]))

\* np.cumsum(values)
cumsum(values) == cumsum_to(values, Len(values))

\* faulty variant: the investment enters with the sign it has
full_cash_flows_unsigned(investment, flows) == <<investment>> \o flows

\* [-initial_investment] + cash_flows
full_cash_flows_of(investment, flows) == <<RNeg(investment)>> \o flows

\* faulty variant: the interpolation starts from the crossing period, not the one
\* before it
payback_late(investment, flows) ==
    Only({Only({IF payback # {}
                THEN Only({IF first - 1 > 0
                           THEN RAdd(RI(first - 1),
                                     RDiv(RAbs(cumulative[first - 1]),
                                          RSub(cumulative[first], cumulative[first - 1])))
                           ELSE RI(first - 1) :
                           first \in {CHOOSE i \in payback : \A j \in payback : i <= j}})
                ELSE None :
                payback \in {{i \in 1..Len(cumulative) : RGe(cumulative[i], RZero)}}}) :
          cumulative \in {cumsum(full_cash_flows_of(investment, flows))}})

\* faulty variant: abs() is missing from the interpolation
payback_noabs(investment, flows) ==
    Only({Only({IF payback # {}
                THEN Only({IF first - 1 > 0
                           THEN RAdd(RI(first - 2),
                                     RDiv(cumulative[first - 1],
                                          RSub(cumulative[first], cumulative[first - 1])))
                           ELSE RI(first - 1) :
                           first \in {CHOOSE i \in payback : \A j \in payback : i <= j}})
                ELSE None :
                payback \in {{i \in 1..Len(cumulative) : RGe(cumulative[i], RZero)}}}) :
          cumulative \in {cumsum(full_cash_flows_of(investment, flows))}})

\* faulty variant: the crossing is cumulative > 0
payback_strict(investment, flows) ==
    Only({Only({IF payback # {}
                THEN Only({IF first - 1 > 0
                           THEN RAdd(RI(first - 2),
                                     RDiv(RAbs(cumulative[first - 1]),
                                          RSub(cumulative[first], cumulative[first - 1])))
                           ELSE RI(first - 1) :
                           first \in {CHOOSE i \in payback : \A j \in payback : i <= j}})
                ELSE None :
                payback \in {{i \in 1..Len(cumulative) : RGt(cumulative[i], RZero)}}}) :
          cumulative \in {cumsum(full_cash_flows_of(investment, flows))}})

\* lines 36-47.  cumulative[i] here is cumulative[i - 1] of the source, so
\* with first the position of the first entry >= 0, payback_period of the
\* source is first - 1 before the interpolation and (first - 1) - 1 + ... after
payback_of(investment, flows) ==
    Only({Only({IF payback # {}
                THEN Only({IF first - 1 > 0
                           THEN RAdd(RI(first - 2),
                                     RDiv(RAbs(cumulative[first - 1]),
                                          RSub(cumulative[first], cumulative[first - 1])))
                           ELSE RI(first - 1) :
                           first \in {CHOOSE i \in payback : \A j \in payback : i <= j}})
                ELSE None :
                payback \in {{i \in 1..Len(cumulative) : RGe(cumulative[i], RZero)}}}) :
          cumulative \in {cumsum(full_cash_flows_of(investment, flows))}})

\* What npf.irr(full_cash_flows) may do: raise, return nan (no admissible
\* root), or return a rate.  The root finder is library code; its result is
\* left open over a grid of rates (as fractions).
IrrRaises == [k |-> "raise"]
IrrRates == {RQ(12, 100), RQ(30, 100)}
IrrOutcomes == {IrrRaises, NaN} \cup IrrRates

\* lines 30-34
irr_of(irr_raw) ==
    IF irr_raw = IrrRaises THEN None
    ELSE IF irr_raw = NaN THEN NaN
    ELSE RMul(irr_raw, RI(100))

\* The returned triple; irrs holds the values irr may take, one for each
\* outcome of npf.irr.
calculate_npv_metrics(investment, flows, rate_pct) ==
    [npv |-> npf_npv(RDiv(rate_pct, RI(100)), full_cash_flows_of(investment, flows)),
     irrs |-> {irr_of(irr_raw) : irr_raw \in IrrOutcomes},
     payback_period |-> payback_of(investment, flows)]

(***************************************************************************)
(* SpecAppraisal: calculate_npv_metrics applied to drawn arguments.        *)
(***************************************************************************)
MaxInvestment == 12
MaxLoss == 1
MaxFlow == 2
MaxSlope == 1

Investments == {RI(k) : k \in 0..MaxInvestment}

\* ten yearly flows a, a + b, a + 2b, ...
CashFlowSeries ==
    {[y \in years |-> RI(a + b * (y - 1))] : a \in -MaxLoss..MaxFlow, b \in -MaxSlope..MaxSlope}

DiscountRates == {RI(0), RI(13)}

InitAppraisal ==
    /\ pc = "appraise"
    /\ initial_investment \in Investments
    /\ cash_flows \in CashFlowSeries
    /\ discount_rate \in DiscountRates
    /\ npv = Unset
    /\ irr = Unset
    /\ payback_period = Unset
    /\ base_params = Unset
    /\ base_npv = Unset
    /\ sensitivity_results = <<>>
    /\ calls = <<>>
    /\ report = Unset
    /\ widgets = Unset
    /\ session_state = <<>>
    /\ projection = Unset
    /\ projected_revenues = <<>>
    /\ projected_margins = <<>>
    /\ financials_revenue = Unset
    /\ baseline_metrics = Unset
    /\ startup_catalog = <<>>

Appraise ==
    /\ pc = "appraise"
    /\ \E r \in {calculate_npv_metrics(initial_investment, cash_flows, discount_rate)} :
          /\ npv' = r.npv
          /\ irr' \in r.irrs
          /\ payback_period' = r.payback_period
    /\ pc' = "appraised"
    /\ UNCHANGED <<initial_investment, cash_flows, discount_rate,
                   base_params, base_npv, sensitivity_results, calls,
                   report, widgets, session_state>>
    /\ UNCHANGED <<projection_vars, financials_vars, startup_catalog>>

NextAppraisal == Appraise

SpecAppraisal == InitAppraisal /\ [][NextAppraisal]_vars

(***************************************************************************)
(* calculate_sensitivity_npv and create_tornado_plot                       *)
(***************************************************************************)
\* lines 373-383: params = base_params.copy(), then the named entry of the
\* copy is replaced
perturbed_params(bp, param_name, variation_pct) ==
    IF param_name = "initial_investment"
    THEN [bp EXCEPT !.initial_investment =
              RMul(bp.initial_investment, RAdd(RI(1), RDiv(RI(variation_pct), RI(100))))]
    ELSE IF param_name = "growth_rate"
    THEN [bp EXCEPT !.growth_rate = RAdd(bp.growth_rate, RI(variation_pct))]
    ELSE IF param_name = "discount_rate"
    THEN [bp EXCEPT !.discount_rate = RAdd(bp.discount_rate, RI(variation_pct))]
    ELSE IF param_name = "cost_growth"
    THEN [bp EXCEPT !.cost_growth = RAdd(bp.cost_growth, RI(variation_pct))]
    ELSE bp

\* line 388: the margin of a year inside the sweep
sensitivity_margin(cost_growth, year) ==
    RMul(RQ(2507, 10000), RSub(RI(1), RMul(RDiv(cost_growth, RI(100)), RI(year))))

\* lines 386-389: the cash flows of a params dict
sensitivity_cash_flows(params) ==
    LET revenues == [year \in years |->
                        RMul(params.base_revenue,
                             RPow(RAdd(RI(1), RDiv(params.growth_rate, RI(100))), year - 1))]
        adjusted_margins == [year \in years |->
                                sensitivity_margin(params.cost_growth, year)]
    IN [year \in years |-> RMul(revenues[year], adjusted_margins[year])]

\* lines 385-393: the NPV of a params dict
sensitivity_npv_of(params) ==
    npf_npv(RDiv(params.discount_rate, RI(100)),
            full_cash_flows_of(params.initial_investment, sensitivity_cash_flows(params)))

\* faulty variant: params = base_params, without the copy
calculate_sensitivity_npv_nocopy(bp, param_name, variation_pct) ==
    Only({[npv |-> sensitivity_npv_of(params), params |-> params, base_params |-> params] :
          params \in {perturbed_params(bp, param_name, variation_pct)}})

\* The call as a whole: the NPV, the params dict it built, and the caller's
\* dict as the call leaves it (untouched, since params is a copy).
calculate_sensitivity_npv(bp, param_name, variation_pct) ==
    Only({[npv |-> sensitivity_npv_of(params), params |-> params, base_params |-> bp] :
          params \in {perturbed_params(bp, param_name, variation_pct)}})

\* lines 398-403, in the dict's insertion order
parameters ==
    << [param |-> "initial_investment", variation |-> 20, label |-> "Initial Investment (+-20%)"],
       [param |-> "growth_rate", variation |-> 2, label |-> "Growth Rate (+-2%)"],
       [param |-> "discount_rate", variation |-> 2, label |-> "Discount Rate (+-2%)"],
       [param |-> "cost_growth", variation |-> 2, label |-> "Cost Growth Rate (2%)"] >>

\* line 424: the sort key
impact(r) == RMax(RAbs(r.npv_change_low), RAbs(r.npv_change_high))

\* faulty variant: an unstable sort, r goes in front of the entries of its own key
insert_sorted_unstable(sorted, r) ==
    LET before == {i \in 1..Len(sorted) : RLt(impact(sorted[i]), impact(r))}
        n == Cardinality(before)
    IN SubSeq(sorted, 1, n) \o <<r>> \o SubSeq(sorted, n + 1, Len(sorted))

\* one step of a stable ascending sort: r goes behind every entry whose key
\* is not greater than its own
insert_sorted(sorted, r) ==
    LET before == {i \in 1..Len(sorted) : RLe(impact(sorted[i]), impact(r))}
        n == Cardinality(before)
    IN SubSeq(sorted, 1, n) \o <<r>> \o SubSeq(sorted, n + 1, Len(sorted))

RECURSIVE sort_by_impact(_, _)
\* list.sort(key=...) of the first k entries: stable, ascending
sort_by_impact(results, k) ==
    IF k = 0 THEN <<>> ELSE insert_sorted(sort_by_impact(results, k - 1), results[k])

RECURSIVE tornado_loop(_, _, _, _, _)
\* lines 411-421, from parameter i on: bp is the caller's dict as the calls
\* so far have left it
tornado_loop(bp, npv0, i, results, trace) ==
    IF i > Len(parameters) THEN [base_params |-> bp, results |-> results, calls |-> trace]
    ELSE Only({Only({tornado_loop(dec.base_params, npv0, i + 1,
                                  Append(results,
                                         [parameter |-> parameters[i].label,
                                          npv_change_low |-> RSub(dec.npv, npv0),
                                          npv_change_high |-> RSub(inc.npv, npv0)]),
                                  trace \o <<inc.params, dec.params>>) :
                     dec \in {calculate_sensitivity_npv(inc.base_params, parameters[i].param,
                                                        -parameters[i].variation)}}) :
               inc \in {calculate_sensitivity_npv(bp, parameters[i].param,
                                                  parameters[i].variation)}})

create_tornado_plot(bp) ==
    Only({Only({[base_params |-> loop.base_params,
                 base_npv |-> base.npv,
                 sensitivity_results |-> sort_by_impact(loop.results, Len(loop.results)),
                 calls |-> loop.calls] :
                loop \in {tornado_loop(base.base_params, base.npv, 1, <<>>, <<base.params>>)}}) :
          base \in {calculate_sensitivity_npv(bp, "initial_investment", 0)}})

(***************************************************************************)
(* SpecTornado: create_tornado_plot applied to a drawn base_params dict.   *)
(* The dict's values range over what the function accepts, a zero revenue *)
(* and a zero investment included; SpecAnalysis covers the dicts that     *)
(* financial_analysis_tab passes.                                          *)
(***************************************************************************)
TornadoInvestments == {RI(0), RI(427500), RI(655500)}
TornadoRevenues == {RI(0), RI(530899)}
TornadoGrowthRates == {RI(-2), RI(0), RI(7), RQ(25, 2)}
TornadoDiscountRates == {RI(8), RI(13), RI(20)}
TornadoCostGrowths == {RI(-5), RI(0), RI(3), RI(15)}

InitTornado ==
    /\ pc = "tornado"
    /\ base_params \in [initial_investment : TornadoInvestments,
                        base_revenue : TornadoRevenues,
                        growth_rate : TornadoGrowthRates,
                        discount_rate : TornadoDiscountRates,
                        cost_growth : TornadoCostGrowths]
    /\ base_npv = Unset
    /\ sensitivity_results = <<>>
    /\ calls = <<>>
    /\ initial_investment = Unset
    /\ cash_flows = <<>>
    /\ discount_rate = Unset
    /\ npv = Unset
    /\ irr = Unset
    /\ payback_period = Unset
    /\ report = Unset
    /\ widgets = Unset
    /\ session_state = <<>>
    /\ projection = Unset
    /\ projected_revenues = <<>>
    /\ projected_margins = <<>>
    /\ financials_revenue = Unset
    /\ baseline_metrics = Unset
    /\ startup_catalog = <<>>

Tornado ==
    /\ pc = "tornado"
    /\ \E t \in {create_tornado_plot(base_params)} :
          /\ base_params' = t.base_params
          /\ base_npv' = t.base_npv
          /\ sensitivity_results' = t.sensitivity_results
          /\ calls' = t.calls
    /\ pc' = "tornado_done"
    /\ UNCHANGED <<initial_investment, cash_flows, discount_rate, npv, irr, payback_period,
                   report, widgets, session_state>>
    /\ UNCHANGED <<projection_vars, financials_vars, startup_catalog>>

NextTornado == Tornado

SpecTornado == InitTornado /\ [][NextTornado]_vars

(***************************************************************************)
(* generate_investment_report                                              *)
(***************************************************************************)
\* f"{v:.1f}" and f"{v:,.0f}": a float (nan included) formats, None raises
\* TypeError
formats(v) == v # None

\* float comparisons; every comparison with nan is False
Gt(v, c) == IsNum(v) /\ RGt(v, RI(c))
Lt(v, c) == IsNum(v) /\ RLt(v, RI(c))

\* float comparison >=, as the faulty variants below use it
Ge(v, c) == IsNum(v) /\ RGe(v, RI(c))

\* faulty variant: the thresholds are inclusive
risk_level_inclusive(irr_) ==
    IF Ge(irr_, 25) THEN "LOW" ELSE IF Ge(irr_, 15) THEN "MODERATE" ELSE "HIGH"

\* line 735
risk_level_of(irr_) ==
    IF Gt(irr_, 25) THEN "LOW" ELSE IF Gt(irr_, 15) THEN "MODERATE" ELSE "HIGH"

\* faulty variant: the IRR threshold of the first tier is inclusive
recommendation_inclusive(npv_, irr_, payback_) ==
    IF Gt(npv_, 0) /\ Ge(irr_, 15) /\ Lt(payback_, 7) THEN "RECOMMENDED"
    ELSE IF Gt(npv_, 0) /\ Gt(irr_, 10) THEN "CAUTIOUSLY POSITIVE"
    ELSE "NOT RECOMMENDED"

\* lines 748-771
recommendation_of(npv_, irr_, payback_) ==
    IF Gt(npv_, 0) /\ Gt(irr_, 15) /\ Lt(payback_, 7) THEN "RECOMMENDED"
    ELSE IF Gt(npv_, 0) /\ Gt(irr_, 10) THEN "CAUTIOUSLY POSITIVE"
    ELSE "NOT RECOMMENDED"

\* The metrics' part of the report: the overview (lines 699-707) formats all
\* three metrics before anything is classified, so an absent metric raises
\* there.  The other eight arguments only feed the text.
generate_investment_report(npv_, irr_, payback_) ==
    IF ~(formats(npv_) /\ formats(irr_) /\ formats(payback_))
    THEN [raised |-> "TypeError", risk_level |-> "-", recommendation |-> "-"]
    ELSE [raised |-> "-", risk_level |-> risk_level_of(irr_),
          recommendation |-> recommendation_of(npv_, irr_, payback_)]

(***************************************************************************)
(* SpecReport: generate_investment_report applied to drawn metrics.        *)
(***************************************************************************)
ReportNpvs == {RI(-1), RZero, RI(1), RI(135907)}
ReportIrrs == {RI(9), RI(10), RQ(21, 2), RI(15), RQ(31, 2), RI(25), RI(26), NaN, None}
ReportPaybacks == {RZero, RQ(13, 2), RI(7), RQ(15, 2), None}

InitReport ==
    /\ pc = "report"
    /\ npv \in ReportNpvs
    /\ irr \in ReportIrrs
    /\ payback_period \in ReportPaybacks
    /\ report = Unset
    /\ initial_investment = Unset
    /\ cash_flows = <<>>
    /\ discount_rate = Unset
    /\ base_params = Unset
    /\ base_npv = Unset
    /\ sensitivity_results = <<>>
    /\ calls = <<>>
    /\ widgets = Unset
    /\ session_state = <<>>
    /\ projection = Unset
    /\ projected_revenues = <<>>
    /\ projected_margins = <<>>
    /\ financials_revenue = Unset
    /\ baseline_metrics = Unset
    /\ startup_catalog = <<>>

Report ==
    /\ pc = "report"
    /\ report' = generate_investment_report(npv, irr, payback_period)
    /\ pc' = "reported"
    /\ UNCHANGED <<initial_investment, cash_flows, discount_rate, npv, irr, payback_period,
                   base_params, base_npv, sensitivity_results, calls, widgets, session_state>>
    /\ UNCHANGED <<projection_vars, financials_vars, startup_catalog>>

NextReport == Report

SpecReport == InitReport /\ [][NextReport]_vars

(***************************************************************************)
(* The projection: calculate_scenario_revenues, calculate_adjusted_margins *)
(***************************************************************************)
\* faulty variant: the growth of a year is applied in that year already
calculate_scenario_revenues_early(base_revenue, scenario, growth_rate) ==
    LET start_pct == IF scenario = "Weak Demand" THEN -15
                     ELSE IF scenario = "Above Average Demand" THEN 15
                     ELSE 0
        starting_revenue == RMul(base_revenue, RAdd(RI(1), RDiv(RI(start_pct), RI(100))))
    IN [year \in years |->
           RMul(starting_revenue, RPow(RAdd(RI(1), RDiv(growth_rate, RI(100))), year))]

calculate_scenario_revenues(base_revenue, scenario, growth_rate) ==
    LET start_pct == IF scenario = "Weak Demand" THEN -15
                     ELSE IF scenario = "Above Average Demand" THEN 15
                     ELSE 0
        starting_revenue == RMul(base_revenue, RAdd(RI(1), RDiv(RI(start_pct), RI(100))))
    IN [year \in years |->
           RMul(starting_revenue, RPow(RAdd(RI(1), RDiv(growth_rate, RI(100))), year - 1))]

\* faulty variant: the margin is multiplied by the cost multiplier
calculate_adjusted_margins_compounded(base_margin, cost_growth_rate) ==
    [year \in years |->
        LET cost_multiplier == RPow(RAdd(RI(1), RDiv(cost_growth_rate, RI(100))), year - 1)
        IN RMul(base_margin, cost_multiplier)]

calculate_adjusted_margins(base_margin, cost_growth_rate) ==
    [year \in years |->
        LET cost_multiplier == RPow(RAdd(RI(1), RDiv(cost_growth_rate, RI(100))), year - 1)
        IN RDiv(base_margin, cost_multiplier)]

(***************************************************************************)
(* SpecProjection: the two projection functions applied to drawn           *)
(* arguments, in the order of lines 254 and 256.  The arguments range over *)
(* what the functions accept: a tier name that is none of the three, and a *)
(* base revenue and a base margin other than those of the dashboard.       *)
(***************************************************************************)
ProjectionRevenues == {RI(530899), RI(1000)}
ProjectionScenarios == {"Average Demand", "Weak Demand", "Above Average Demand", "Strong Demand"}
ProjectionGrowthRates == {RI(-2), RZero, RI(7), RQ(25, 2)}
ProjectionMargins == {RQ(2507, 10000), RQ(1, 2)}
ProjectionCostGrowths == {RI(-5), RZero, RI(3), RI(15)}

InitProjection ==
    /\ pc = "revenues"
    /\ projection \in [base_revenue : ProjectionRevenues,
                       scenario : ProjectionScenarios,
                       growth_rate : ProjectionGrowthRates,
                       base_margin : ProjectionMargins,
                       cost_growth_rate : ProjectionCostGrowths]
    /\ projected_revenues = <<>>
    /\ projected_margins = <<>>
    /\ initial_investment = Unset
    /\ cash_flows = <<>>
    /\ discount_rate = Unset
    /\ npv = Unset
    /\ irr = Unset
    /\ payback_period = Unset
    /\ base_params = Unset
    /\ base_npv = Unset
    /\ sensitivity_results = <<>>
    /\ calls = <<>>
    /\ report = Unset
    /\ widgets = Unset
    /\ session_state = <<>>
    /\ financials_revenue = Unset
    /\ baseline_metrics = Unset
    /\ startup_catalog = <<>>

\* line 254
ProjectRevenues ==
    /\ pc = "revenues"
    /\ projected_revenues' = calculate_scenario_revenues(projection.base_revenue,
                                                         projection.scenario,
                                                         projection.growth_rate)
    /\ pc' = "margins"
    /\ UNCHANGED <<projection, projected_margins>>
    /\ UNCHANGED <<initial_investment, cash_flows, discount_rate, npv, irr, payback_period,
                   base_params, base_npv, sensitivity_results, calls, report, widgets,
                   session_state, financials_vars, startup_catalog>>

\* line 256
ProjectMargins ==
    /\ pc = "margins"
    /\ projected_margins' = calculate_adjusted_margins(projection.base_margin,
                                                       projection.cost_growth_rate)
    /\ pc' = "projected"
    /\ UNCHANGED <<projection, projected_revenues>>
    /\ UNCHANGED <<initial_investment, cash_flows, discount_rate, npv, irr, payback_period,
                   base_params, base_npv, sensitivity_results, calls, report, widgets,
                   session_state, financials_vars, startup_catalog>>

NextProjection == ProjectRevenues \/ ProjectMargins

SpecProjection == InitProjection /\ [][NextProjection]_vars

(***************************************************************************)
(* startup_costs_tab: the catalog and the three totals it stores           *)
(***************************************************************************)
default_startup_costs ==
    << [low |-> 35000, high |-> 35000], [low |-> 5000, high |-> 8000],
       [low |-> 5000, high |-> 7000], [low |-> 5000, high |-> 7500],
       [low |-> 2000, high |-> 8000], [low |-> 100000, high |-> 160000],
       [low |-> 200000, high |-> 460000], [low |-> 6000, high |-> 20000],
       [low |-> 500, high |-> 5000], [low |-> 10000, high |-> 35000],
       [low |-> 500, high |-> 1000], [low |-> 8000, high |-> 12000],
       [low |-> 4500, high |-> 30000], [low |-> 5000, high |-> 10000],
       [low |-> 1000, high |-> 5000], [low |-> 40000, high |-> 80000] >>

\* faulty variant: the midpoint of a category is taken by integer division
startup_costs_floor(catalog) ==
    [c \in {"Low Cost", "Average Cost", "High Cost"} |->
        IF c = "Low Cost"
        THEN RSum([i \in 1..Len(catalog) |-> RI(catalog[i].low)], Len(catalog))
        ELSE IF c = "High Cost"
        THEN RSum([i \in 1..Len(catalog) |-> RI(catalog[i].high)], Len(catalog))
        ELSE RSum([i \in 1..Len(catalog) |->
                      RI((catalog[i].low + catalog[i].high) \div 2)], Len(catalog))]

\* lines 98-102
startup_costs_of(catalog) ==
    [c \in {"Low Cost", "Average Cost", "High Cost"} |->
        IF c = "Low Cost"
        THEN RSum([i \in 1..Len(catalog) |-> RI(catalog[i].low)], Len(catalog))
        ELSE IF c = "High Cost"
        THEN RSum([i \in 1..Len(catalog) |-> RI(catalog[i].high)], Len(catalog))
        ELSE RSum([i \in 1..Len(catalog) |->
                      RDiv(RI(catalog[i].low + catalog[i].high), RI(2))], Len(catalog))]

(***************************************************************************)
(* calculate_financials and SpecFinancials: the breakdown of a drawn       *)
(* revenue, the baseline revenue of line 252 among them.                   *)
(***************************************************************************)
\* faulty variant: the labor ratio with two digits transposed
calculate_financials_transposed(revenue) ==
    [revenue |-> revenue,
     cogs |-> RMul(revenue, RQ(2443, 10000)),
     labor |-> RMul(revenue, RQ(3183, 10000)),
     occupancy |-> RMul(revenue, RQ(1150, 10000)),
     operating |-> RMul(revenue, RQ(95, 10000)),
     royalties |-> RMul(revenue, RQ(400, 10000)),
     franchise_expense |-> RMul(revenue, RQ(268, 10000)),
     gross_profit |-> RMul(revenue, RQ(2507, 10000))]

\* lines 9-20
calculate_financials(revenue) ==
    [revenue |-> revenue,
     cogs |-> RMul(revenue, RQ(2443, 10000)),
     labor |-> RMul(revenue, RQ(3138, 10000)),
     occupancy |-> RMul(revenue, RQ(1150, 10000)),
     operating |-> RMul(revenue, RQ(95, 10000)),
     royalties |-> RMul(revenue, RQ(400, 10000)),
     franchise_expense |-> RMul(revenue, RQ(268, 10000)),
     gross_profit |-> RMul(revenue, RQ(2507, 10000))]

MaxRevenue == 60

FinancialsRevenues == {RI(530899)} \cup {RQ(n, 4) : n \in 0..MaxRevenue}

InitFinancials ==
    /\ pc = "financials"
    /\ financials_revenue \in FinancialsRevenues
    /\ baseline_metrics = Unset
    /\ initial_investment = Unset
    /\ cash_flows = <<>>
    /\ discount_rate = Unset
    /\ npv = Unset
    /\ irr = Unset
    /\ payback_period = Unset
    /\ base_params = Unset
    /\ base_npv = Unset
    /\ sensitivity_results = <<>>
    /\ calls = <<>>
    /\ report = Unset
    /\ widgets = Unset
    /\ session_state = <<>>
    /\ projection = Unset
    /\ projected_revenues = <<>>
    /\ projected_margins = <<>>
    /\ startup_catalog = <<>>

\* line 361
Breakdown ==
    /\ pc = "financials"
    /\ baseline_metrics' = calculate_financials(financials_revenue)
    /\ pc' = "broken_down"
    /\ UNCHANGED <<initial_investment, cash_flows, discount_rate, npv, irr, payback_period,
                   base_params, base_npv, sensitivity_results, calls, report, widgets,
                   session_state, projection_vars, financials_revenue, startup_catalog>>

NextFinancials == Breakdown

SpecFinancials == InitFinancials /\ [][NextFinancials]_vars

(***************************************************************************)
(* SpecCatalog: the three totals of lines 98-102 taken over a drawn        *)
(* catalog: the catalog of the dashboard, and every catalog of at most     *)
(* MaxEntries categories with amounts up to MaxAmount, the empty one and   *)
(* those with a low above the high among them.                             *)
(***************************************************************************)
MaxEntries == 2
MaxAmount == 3

Categories == [low : 0..MaxAmount, high : 0..MaxAmount]
Catalogs == UNION {[1..n -> Categories] : n \in 0..MaxEntries} \cup {default_startup_costs}

InitCatalog ==
    /\ pc = "catalog"
    /\ startup_catalog \in Catalogs
    /\ session_state = <<>>
    /\ initial_investment = Unset
    /\ cash_flows = <<>>
    /\ discount_rate = Unset
    /\ npv = Unset
    /\ irr = Unset
    /\ payback_period = Unset
    /\ base_params = Unset
    /\ base_npv = Unset
    /\ sensitivity_results = <<>>
    /\ calls = <<>>
    /\ report = Unset
    /\ widgets = Unset
    /\ projection = Unset
    /\ projected_revenues = <<>>
    /\ projected_margins = <<>>
    /\ financials_revenue = Unset
    /\ baseline_metrics = Unset

\* lines 98-102
StoreTotals ==
    /\ pc = "catalog"
    /\ session_state' = [startup_costs |-> startup_costs_of(startup_catalog)]
    /\ pc' = "totals"
    /\ UNCHANGED <<initial_investment, cash_flows, discount_rate, npv, irr, payback_period,
                   base_params, base_npv, sensitivity_results, calls, report, widgets,
                   projection_vars, financials_vars, startup_catalog>>

NextCatalog == StoreTotals

SpecCatalog == InitCatalog /\ [][NextCatalog]_vars

(***************************************************************************)
(* financial_analysis_tab                                                  *)
(***************************************************************************)
\* line 550
BaseRevenue == 530899
\* line 551
base_margin_of == RQ(2507, 10000)

\* lines 555-561: the projection and the appraisal of the widgets' scenario
analysis_of(w, investment) ==
    Only({Only({Only({[revenues |-> revenues, adjusted_margins |-> adjusted_margins,
                       profits |-> profits,
                       npv |-> m.npv, irrs |-> m.irrs, payback |-> m.payback_period] :
                      m \in {calculate_npv_metrics(investment, profits, w.discount_rate)}}) :
                profits \in {[year \in years |->
                                 RMul(revenues[year], adjusted_margins[year])]}}) :
          revenues \in {calculate_scenario_revenues(RI(BaseRevenue), w.selected_revenue,
                                                    w.growth_rate)},
          adjusted_margins \in {calculate_adjusted_margins(base_margin_of,
                                                           w.cost_growth_rate)}})

\* faulty variant: the growth rate and the cost growth rate exchanged
stored_exchanged(a, irr_, w, investment) ==
    [current_npv |-> a.npv, current_irr |-> irr_, current_payback |-> a.payback,
     current_revenues |-> a.revenues, current_profits |-> a.profits,
     current_margins |-> a.adjusted_margins, current_investment |-> investment,
     current_cost_growth |-> w.growth_rate, current_growth_rate |-> w.cost_growth_rate,
     current_revenue_scenario |-> w.selected_revenue,
     current_cost_scenario |-> w.cost_scenario]

\* lines 564-574
stored(a, irr_, w, investment) ==
    [current_npv |-> a.npv, current_irr |-> irr_, current_payback |-> a.payback,
     current_revenues |-> a.revenues, current_profits |-> a.profits,
     current_margins |-> a.adjusted_margins, current_investment |-> investment,
     current_cost_growth |-> w.cost_growth_rate, current_growth_rate |-> w.growth_rate,
     current_revenue_scenario |-> w.selected_revenue,
     current_cost_scenario |-> w.cost_scenario]

\* faulty variant: the investment is the edited total of the startup view
investment_edited(ss, selected_cost) == ss.current_total_investment

\* line 478
investment_of(ss, selected_cost) == ss.startup_costs[selected_cost]

\* lines 674-680
base_params_of(w, investment) ==
    [initial_investment |-> investment, base_revenue |-> RI(BaseRevenue),
     growth_rate |-> w.growth_rate, discount_rate |-> w.discount_rate,
     cost_growth |-> w.cost_growth_rate]

\* the widgets' values: (revenue scenario, growth rate), (cost scenario,
\* cost growth rate) within the inputs' ranges, the investment level and the
\* discount rate
RevenueChoices ==
    { <<"Average Demand", RI(7)>>, <<"Weak Demand", RI(3)>>,
      <<"Above Average Demand", RI(12)>>, <<"Average Demand", RZero>>,
      <<"Weak Demand", RI(-2)>> }
CostChoices ==
    { <<"Average Costs", RI(3)>>, <<"Below Average Costs", RI(2)>>,
      <<"Above Average Costs", RI(7)>>, <<"Average Costs", RZero>>,
      <<"Below Average Costs", RI(-5)>> }
AnalysisDiscountRates == {RI(8), RI(13)}

WidgetValues ==
    { [selected_cost |-> c, selected_revenue |-> r[1], growth_rate |-> r[2],
       cost_scenario |-> k[1], cost_growth_rate |-> k[2], discount_rate |-> d] :
        c \in {"Average Cost", "Low Cost", "High Cost"}, r \in RevenueChoices,
        k \in CostChoices, d \in AnalysisDiscountRates }

\* startup_costs_tab has run (main runs it first): its totals are stored
InitAnalysis ==
    /\ pc = "analysis"
    /\ widgets \in WidgetValues
    /\ session_state = [startup_costs |-> startup_costs_of(default_startup_costs)]
    /\ initial_investment = Unset
    /\ cash_flows = <<>>
    /\ discount_rate = Unset
    /\ npv = Unset
    /\ irr = Unset
    /\ payback_period = Unset
    /\ base_params = Unset
    /\ base_npv = Unset
    /\ sensitivity_results = <<>>
    /\ calls = <<>>
    /\ report = Unset
    /\ projection = Unset
    /\ projected_revenues = <<>>
    /\ projected_margins = <<>>
    /\ financials_revenue = Unset
    /\ baseline_metrics = Unset
    /\ startup_catalog = default_startup_costs

\* One run of financial_analysis_tab.  The metrics are stored in the session
\* first (lines 564-574); the metric widgets then format irr and payback
\* (lines 583, 585), which raises for None and ends the run before the
\* tornado plot.
FinancialAnalysisTab ==
    /\ pc = "analysis"
    /\ "startup_costs" \in DOMAIN session_state
    /\ LET investment == investment_of(session_state, widgets.selected_cost)
           bp == base_params_of(widgets, investment)
       IN \E a \in {analysis_of(widgets, investment)}, t \in {create_tornado_plot(bp)} :
          /\ initial_investment' = investment
          /\ cash_flows' = a.profits
          /\ discount_rate' = widgets.discount_rate
          /\ npv' = a.npv
          /\ payback_period' = a.payback
          /\ \E irr_ \in a.irrs :
               /\ irr' = irr_
               /\ session_state' = stored(a, irr_, widgets, investment) @@ session_state
               /\ IF formats(irr_) /\ formats(a.payback)
                  THEN /\ base_params' = t.base_params
                       /\ base_npv' = t.base_npv
                       /\ sensitivity_results' = t.sensitivity_results
                       /\ calls' = t.calls
                       /\ pc' = "analysed"
                  ELSE /\ UNCHANGED <<base_params, base_npv, sensitivity_results, calls>>
                       /\ pc' = "raised"
    /\ UNCHANGED <<report, widgets>>
    /\ UNCHANGED <<projection_vars, financials_vars, startup_catalog>>

NextAnalysis == FinancialAnalysisTab

SpecAnalysis == InitAnalysis /\ [][NextAnalysis]_vars

(***************************************************************************)
(* SpecApp: the reruns of main.  Every run executes the four tabs in       *)
(* order; the session state outlives the run, the tabs' locals do not.  A  *)
(* run ends early when a tab raises.                                       *)
(***************************************************************************)
\* lines 112-118: the amounts a cost scenario starts from
scenario_costs(cost_scenario) ==
    [i \in 1..Len(default_startup_costs) |->
        IF cost_scenario = "Low Cost" THEN RI(default_startup_costs[i].low)
        ELSE IF cost_scenario = "High Cost" THEN RI(default_startup_costs[i].high)
        ELSE RDiv(RI(default_startup_costs[i].low + default_startup_costs[i].high), RI(2))]

\* lines 135-143: what the number input of category i returns: the amount
\* the user typed, at the lower or the upper end of the input's range, or
\* the amount it was given
number_input(edit, i, value) ==
    IF edit.category # i THEN value
    ELSE IF edit.to = "min_value" THEN RMul(RI(default_startup_costs[i].low), RQ(1, 2))
    ELSE RMul(RI(default_startup_costs[i].high), RQ(3, 2))

\* the user's edit of a run: none, or the construction amount moved to an
\* end of its input's range
Edits ==
    {[category |-> 0, to |-> "-"]} \cup
    [category : {7}, to : {"min_value", "max_value"}]

\* the widgets of a run: the startup view's scenario and edit, the
\* projection view's inputs at their defaults, and the analysis view's inputs
AppWidgetValues ==
    { [cost_scenario_startup |-> cs, edit |-> e,
       revenue_scenario_select |-> "Average Demand", growth_rate_rev |-> RI(5),
       cost_growth_rate_rev |-> RI(3),
       selected_cost |-> a[1], selected_revenue |-> a[2], growth_rate |-> a[3],
       cost_scenario |-> "Average Costs", cost_growth_rate |-> RI(3),
       discount_rate |-> RI(13)] :
        cs \in {"Average Cost", "High Cost"}, e \in Edits,
        a \in { <<"Average Cost", "Average Demand", RI(7)>>,
                <<"Low Cost", "Weak Demand", RI(-2)>>,
                <<"High Cost", "Weak Demand", RI(-2)>> } }

\* a fresh session
InitApp ==
    /\ pc = "startup"
    /\ widgets \in AppWidgetValues
    /\ session_state = <<>>
    /\ startup_catalog = default_startup_costs
    /\ initial_investment = Unset
    /\ cash_flows = <<>>
    /\ discount_rate = Unset
    /\ npv = Unset
    /\ irr = Unset
    /\ payback_period = Unset
    /\ base_params = Unset
    /\ base_npv = Unset
    /\ sensitivity_results = <<>>
    /\ calls = <<>>
    /\ report = Unset
    /\ projection = Unset
    /\ projected_revenues = <<>>
    /\ projected_margins = <<>>
    /\ financials_revenue = Unset
    /\ baseline_metrics = Unset

\* lines 74-195
StartupCostsTab ==
    /\ pc = "startup"
    /\ \E given \in {IF "current_costs" \notin DOMAIN session_state
                        \/ session_state.last_scenario # widgets.cost_scenario_startup
                     THEN scenario_costs(widgets.cost_scenario_startup)
                     ELSE session_state.current_costs} :
         \E current \in {[i \in 1..Len(default_startup_costs) |->
                             number_input(widgets.edit, i, given[i])]} :
            session_state' =
                [startup_costs |-> startup_costs_of(startup_catalog),
                 current_costs |-> current,
                 last_scenario |-> widgets.cost_scenario_startup,
                 current_total_investment |-> RSum(current, Len(current))] @@ session_state
    /\ pc' = "projections"
    /\ UNCHANGED <<initial_investment, cash_flows, discount_rate, npv, irr, payback_period,
                   base_params, base_npv, sensitivity_results, calls, report, widgets,
                   projection_vars, financials_vars, startup_catalog>>

\* lines 197-370: the view stores nothing in the session
RevenueProjectionsTab ==
    /\ pc = "projections"
    /\ projection' = [base_revenue |-> RI(530899),
                      scenario |-> widgets.revenue_scenario_select,
                      growth_rate |-> widgets.growth_rate_rev,
                      base_margin |-> RQ(2507, 10000),
                      cost_growth_rate |-> widgets.cost_growth_rate_rev]
    /\ projected_revenues' = calculate_scenario_revenues(RI(530899),
                                                         widgets.revenue_scenario_select,
                                                         widgets.growth_rate_rev)
    /\ projected_margins' = calculate_adjusted_margins(RQ(2507, 10000),
                                                       widgets.cost_growth_rate_rev)
    /\ financials_revenue' = RI(530899)
    /\ baseline_metrics' = calculate_financials(RI(530899))
    /\ pc' = "analysis"
    /\ UNCHANGED <<initial_investment, cash_flows, discount_rate, npv, irr, payback_period,
                   base_params, base_npv, sensitivity_results, calls, report, widgets,
                   session_state, startup_catalog>>

\* the eleven session values the report reads, lines 838-848
ReportKeys ==
    {"current_npv", "current_irr", "current_payback", "current_revenues",
     "current_profits", "current_margins", "current_investment", "current_cost_growth",
     "current_growth_rate", "current_revenue_scenario", "current_cost_scenario"}

\* lines 834-877
InvestmentReportTab ==
    /\ pc = "analysed"
    /\ report' = IF "current_npv" \in DOMAIN session_state
                 THEN [warning |-> FALSE,
                       read |-> [k \in ReportKeys |-> session_state[k]],
                       text |-> generate_investment_report(session_state.current_npv,
                                                           session_state.current_irr,
                                                           session_state.current_payback)]
                 ELSE [warning |-> TRUE]
    /\ pc' = "reported"
    /\ UNCHANGED <<initial_investment, cash_flows, discount_rate, npv, irr, payback_period,
                   base_params, base_npv, sensitivity_results, calls, widgets,
                   session_state, projection_vars, financials_vars, startup_catalog>>

\* the user changes a widget: main runs again from the top with the session
\* of the run before
Rerun ==
    /\ pc \in {"reported", "raised"}
    /\ widgets' \in AppWidgetValues
    /\ pc' = "startup"
    /\ initial_investment' = Unset
    /\ cash_flows' = <<>>
    /\ discount_rate' = Unset
    /\ npv' = Unset
    /\ irr' = Unset
    /\ payback_period' = Unset
    /\ base_params' = Unset
    /\ base_npv' = Unset
    /\ sensitivity_results' = <<>>
    /\ calls' = <<>>
    /\ report' = Unset
    /\ projection' = Unset
    /\ projected_revenues' = <<>>
    /\ projected_margins' = <<>>
    /\ financials_revenue' = Unset
    /\ baseline_metrics' = Unset
    /\ UNCHANGED <<session_state, startup_catalog>>

NextApp ==
    \/ StartupCostsTab
    \/ RevenueProjectionsTab
    \/ FinancialAnalysisTab
    \/ InvestmentReportTab
    \/ Rerun

SpecApp == InitApp /\ [][NextApp]_vars


(***************************************************************************)
(* Properties of calculate_npv_metrics, checked under SpecAppraisal.       *)
(***************************************************************************)
Appraised == pc = "appraised"

\* cumulative net position after t periods, from the arguments: the flows of
\* periods 1..t less the investment
Cum(t) == RSub(RSum(cash_flows, t), initial_investment)

\* the periods 0..Len(cash_flows) at which the investment is recovered
Crossings == {t \in 0..Len(cash_flows) : RGe(Cum(t), RZero)}

FirstCrossing == CHOOSE t \in Crossings : \A u \in Crossings : t <= u

\* C7 as stated: a defined payback period p satisfies 0 <= p < horizon
\* (horizon = number of projection years).
C7_PaybackBelowHorizon ==
    (Appraised /\ IsNum(payback_period)) =>
        /\ RGe(payback_period, RZero)
        /\ RLt(payback_period, RI(Len(cash_flows)))

\* C7 amended: a defined payback period p satisfies 0 <= p <= horizon, and
\* p = horizon only when the cumulative position is exactly zero after the
\* last period.
C7_PaybackWithinHorizon ==
    (Appraised /\ IsNum(payback_period)) =>
        /\ RGe(payback_period, RZero)
        /\ RLe(payback_period, RI(Len(cash_flows)))
        /\ REq(payback_period, RI(Len(cash_flows))) =>
               REq(Cum(Len(cash_flows)), RZero)

\* the investment is recovered exactly at the end of the last period
C7_Witness ==
    /\ Appraised
    /\ IsNum(payback_period)
    /\ REq(payback_period, RI(Horizon))
    /\ RGt(initial_investment, RZero)

\* C8: with the cash flows fixed, a larger investment I2 >= I1 has a payback
\* period no smaller than that of I1 when both are defined, and has none
\* when I1 has none.
C8_PaybackMonotone ==
    Appraised =>
        \A I2 \in Investments :
            RGe(I2, initial_investment) =>
                LET p2 == payback_of(I2, cash_flows)
                IN IF IsNum(payback_period)
                   THEN IsNum(p2) => RGe(p2, payback_period)
                   ELSE p2 = None

\* a larger investment that is recovered strictly later, within a series
\* that also has a year in which the position falls
C8_Witness ==
    /\ Appraised
    /\ IsNum(payback_period)
    /\ RGt(payback_period, RZero)
    /\ \E I2 \in Investments :
          /\ RGt(I2, initial_investment)
          /\ IsNum(payback_of(I2, cash_flows))
          /\ RGt(payback_of(I2, cash_flows), payback_period)
    /\ \E I2 \in Investments :
          /\ RGt(I2, initial_investment)
          /\ payback_of(I2, cash_flows) = None

\* C9: the payback period is None iff the cumulative position is never
\* >= 0; it is 0 when the first crossing t* is 0; otherwise it is
\* t* - 1 + |cum[t* - 1]| / (cum[t*] - cum[t* - 1]), which lies in (t* - 1, t*].
C9_PaybackFormula ==
    Appraised =>
        /\ payback_period = None <=> Crossings = {}
        /\ Crossings # {} =>
              /\ IsNum(payback_period)
              /\ FirstCrossing = 0 => REq(payback_period, RZero)
              /\ FirstCrossing > 0 =>
                    LET prev == Cum(FirstCrossing - 1)
                        curr == Cum(FirstCrossing)
                    IN /\ RLt(prev, RZero)
                       /\ REq(RMul(RSub(payback_period, RI(FirstCrossing - 1)),
                                   RSub(curr, prev)),
                              RNeg(prev))
                       /\ RGt(payback_period, RI(FirstCrossing - 1))
                       /\ RLe(payback_period, RI(FirstCrossing))

\* a crossing inside a later period, strictly between its two ends
C9_Witness ==
    /\ Appraised
    /\ Crossings # {}
    /\ FirstCrossing > 1
    /\ RGt(Cum(FirstCrossing), RZero)
    /\ IsNum(payback_period)
    /\ RLt(payback_period, RI(FirstCrossing))

\* C10: at a discount rate of 0 the NPV is the plain sum of the yearly cash
\* flows less the initial investment.
C10_ZeroRateNPV ==
    (Appraised /\ REq(discount_rate, RZero)) =>
        REq(npv, RSub(RSum(cash_flows, Len(cash_flows)), initial_investment))

C10_Witness ==
    /\ Appraised
    /\ REq(discount_rate, RZero)
    /\ RGt(initial_investment, RZero)
    /\ \E y \in years : RLt(cash_flows[y], RZero)
    /\ \E y \in years : RGt(cash_flows[y], RZero)
    /\ RLt(npv, RZero)


(***************************************************************************)
(* Properties of generate_investment_report, checked under SpecReport.     *)
(***************************************************************************)
Reported == pc = "reported"

\* all three metrics are numbers (neither None nor nan)
DefinedTriple == IsNum(npv) /\ IsNum(irr) /\ IsNum(payback_period)

\* C4: for defined NPV, IRR and payback the report names exactly one tier:
\* RECOMMENDED iff NPV > 0, IRR > 15 and payback < 7; CAUTIOUSLY POSITIVE iff
\* NPV > 0 and IRR > 10 and not RECOMMENDED; NOT RECOMMENDED otherwise.
C4_RecommendationTable ==
    (Reported /\ DefinedTriple) =>
        LET rec == /\ RGt(npv, RZero)
                   /\ RGt(irr, RI(15))
                   /\ RLt(payback_period, RI(7))
            caut == RGt(npv, RZero) /\ RGt(irr, RI(10)) /\ ~rec
        IN /\ report.raised = "-"
           /\ report.recommendation \in
                  {"RECOMMENDED", "CAUTIOUSLY POSITIVE", "NOT RECOMMENDED"}
           /\ report.recommendation = "RECOMMENDED" <=> rec
           /\ report.recommendation = "CAUTIOUSLY POSITIVE" <=> caut
           /\ report.recommendation = "NOT RECOMMENDED" <=> (~rec /\ ~caut)

\* IRR exactly 15 with a positive NPV and a short payback: the lower tier
C4_Witness ==
    /\ Reported
    /\ DefinedTriple
    /\ RGt(npv, RZero)
    /\ REq(irr, RI(15))
    /\ RLt(payback_period, RI(7))
    /\ report.recommendation = "CAUTIOUSLY POSITIVE"

\* C5: with IRR = None the report completes without an exception, the tier
\* is NOT RECOMMENDED and the risk level is HIGH, whatever NPV and payback.
C5_UndefinedIrrHandled ==
    (Reported /\ irr = None) =>
        /\ report.raised = "-"
        /\ report.recommendation = "NOT RECOMMENDED"
        /\ report.risk_level = "HIGH"

TornadoDone == pc = "tornado_done"

\* max(|low|, |high|) of an entry
MaxAbsDelta(r) ==
    IF RGe(RAbs(r.npv_change_low), RAbs(r.npv_change_high))
    THEN RAbs(r.npv_change_low)
    ELSE RAbs(r.npv_change_high)

\* position of a label in the enumeration of the parameters
EnumPos(label) == CHOOSE i \in 1..Len(parameters) : parameters[i].label = label

\* C1: the report has exactly four entries, one for each of initial
\* investment, growth rate, discount rate and cost growth rate, in ascending
\* order of max(|low|, |high|); entries of equal impact are in enumeration
\* order; the reversed sequence is in descending order of impact.
C1_TornadoOrder ==
    TornadoDone =>
        LET sr == sensitivity_results
            rev == [i \in 1..Len(sr) |-> sr[Len(sr) + 1 - i]]
        IN /\ Len(sr) = 4
           /\ Len(parameters) = 4
           /\ \A i \in 1..Len(parameters) :
                 Cardinality({j \in 1..Len(sr) : sr[j].parameter = parameters[i].label}) = 1
           /\ \A i, j \in 1..Len(sr) :
                 i < j =>
                    /\ RLe(MaxAbsDelta(sr[i]), MaxAbsDelta(sr[j]))
                    /\ REq(MaxAbsDelta(sr[i]), MaxAbsDelta(sr[j])) =>
                           EnumPos(sr[i].parameter) < EnumPos(sr[j].parameter)
                    /\ RGe(MaxAbsDelta(rev[i]), MaxAbsDelta(rev[j]))

\* three entries of equal impact in front of the initial investment, which
\* is first in the enumeration
C1_Witness ==
    /\ TornadoDone
    /\ Len(sensitivity_results) = 4
    /\ REq(MaxAbsDelta(sensitivity_results[1]), MaxAbsDelta(sensitivity_results[2]))
    /\ REq(MaxAbsDelta(sensitivity_results[2]), MaxAbsDelta(sensitivity_results[3]))
    /\ RLt(MaxAbsDelta(sensitivity_results[3]), MaxAbsDelta(sensitivity_results[4]))
    /\ sensitivity_results[4].parameter = parameters[1].label

\* the scenario a perturbation of parameter i is to produce from bp
Perturbed(bp, i, up) ==
    LET points == IF up THEN RI(2) ELSE RI(-2)
        factor == IF up THEN RAdd(RI(1), RQ(20, 100)) ELSE RSub(RI(1), RQ(20, 100))
    IN CASE i = 1 -> [bp EXCEPT !.initial_investment = RMul(bp.initial_investment, factor)]
         [] i = 2 -> [bp EXCEPT !.growth_rate = RAdd(bp.growth_rate, points)]
         [] i = 3 -> [bp EXCEPT !.discount_rate = RAdd(bp.discount_rate, points)]
         [] i = 4 -> [bp EXCEPT !.cost_growth = RAdd(bp.cost_growth, points)]

\* two scenarios with the same entries, entry by entry of equal value
SameParams(p, q) ==
    /\ DOMAIN p = DOMAIN q
    /\ \A f \in DOMAIN p : REq(p[f], q[f])

\* C3: a run of the tornado analysis leaves the caller's base scenario as it
\* was; the scenario of each call differs from the base in the named
\* parameter only (initial investment times 1.2 and times 0.8; growth rate,
\* discount rate and cost growth rate plus 2 and minus 2); each entry's high
\* delta is the NPV of the raised scenario less the base NPV and its low
\* delta the NPV of the lowered scenario less the base NPV.
C3_PerturbationFrame ==
    [][pc = "tornado" =>
        /\ base_params' = base_params
        /\ Len(calls') = 1 + 2 * Len(parameters)
        /\ SameParams(calls'[1], base_params)
        /\ REq(base_npv', sensitivity_npv_of(base_params))
        /\ \A i \in 1..Len(parameters) :
              \E up \in {Perturbed(base_params, i, TRUE)},
                 down \in {Perturbed(base_params, i, FALSE)} :
                 /\ SameParams(calls'[2 * i], up)
                 /\ SameParams(calls'[2 * i + 1], down)
                 /\ \E high \in {RSub(sensitivity_npv_of(up), base_npv')},
                       low \in {RSub(sensitivity_npv_of(down), base_npv')} :
                       \E j \in 1..Len(sensitivity_results') :
                          /\ sensitivity_results'[j].parameter = parameters[i].label
                          /\ REq(sensitivity_results'[j].npv_change_high, high)
                          /\ REq(sensitivity_results'[j].npv_change_low, low)
    ]_vars

\* a completed run over a scenario in which every perturbation moves the NPV
C3_Witness ==
    /\ TornadoDone
    /\ Len(calls) = 9
    /\ RGt(base_params.initial_investment, RZero)
    /\ RGt(calls[2].initial_investment, base_params.initial_investment)
    /\ RLt(calls[3].initial_investment, base_params.initial_investment)
    /\ REq(calls[8].cost_growth, RAdd(base_params.cost_growth, RI(2)))
    /\ REq(calls[8].initial_investment, base_params.initial_investment)
    /\ \A j \in 1..Len(sensitivity_results) :
          /\ ~REq(sensitivity_results[j].npv_change_low, RZero)
          /\ ~REq(sensitivity_results[j].npv_change_high, RZero)


(***************************************************************************)
(* Properties of financial_analysis_tab, checked under SpecAnalysis.       *)
(***************************************************************************)
\* C2: the base NPV the tornado analysis takes as the reference of its
\* deltas is the NPV the appraisal returns for the same scenario (its
\* profit series, initial investment and discount rate).
C2_BaseNpvIsAppraisalNpv ==
    pc = "analysed" => REq(base_npv, npv)


(***************************************************************************)
(* Discounting inside the sweep, checked under SpecTornado.                *)
(***************************************************************************)
\* the entry of the report for parameter i of the enumeration
EntryOf(i) ==
    sensitivity_results[CHOOSE j \in 1..Len(sensitivity_results) :
                            sensitivity_results[j].parameter = parameters[i].label]

\* the NPV of the scenario's cash flows at a discount rate of pct percent
NpvAt(flows, pct) ==
    npf_npv(RDiv(pct, RI(100)), full_cash_flows_of(base_params.initial_investment, flows))

\* C11: when the ten yearly cash flows of the scenario are all positive and
\* the discount rate r is positive, the NPV at r + 2 points is strictly less
\* than the NPV at r, and the discount rate's entry of the tornado report has
\* a strictly negative high delta and a strictly positive low delta.
C11_DiscountMonotone ==
    TornadoDone =>
        \A flows \in {sensitivity_cash_flows(base_params)} :
            ((\A y \in years : RGt(flows[y], RZero)) /\ RGt(base_params.discount_rate, RZero)) =>
                /\ RLt(NpvAt(flows, RAdd(base_params.discount_rate, RI(2))),
                       NpvAt(flows, base_params.discount_rate))
                /\ RLt(EntryOf(3).npv_change_high, RZero)
                /\ RGt(EntryOf(3).npv_change_low, RZero)

\* a run over a scenario of positive yearly cash flows
C11_Witness ==
    /\ TornadoDone
    /\ \A y \in years : RGt(sensitivity_cash_flows(base_params)[y], RZero)
    /\ RGt(base_params.discount_rate, RZero)
    /\ RLt(EntryOf(3).npv_change_high, RZero)
    /\ RGt(EntryOf(3).npv_change_low, RZero)


(***************************************************************************)
(* Properties of the projection, checked under SpecProjection.             *)
(***************************************************************************)
Projected == pc = "projected"

\* C12: for a positive base margin the margin series starts at the base
\* margin, never rises from one year to the next when the cost growth rate
\* is positive, never falls when it is negative (above -100), and is the
\* base margin in every year when it is zero; with a zero growth rate as
\* well the revenue is the same in all ten years.
C12_MarginSeries ==
    (Projected /\ RGt(projection.base_margin, RZero)) =>
        LET m == projected_margins
            cg == projection.cost_growth_rate
        IN /\ DOMAIN m = years
           /\ REq(m[1], projection.base_margin)
           /\ RGt(cg, RZero) => \A y \in 1..(Horizon - 1) : RLe(m[y + 1], m[y])
           /\ (RLt(cg, RZero) /\ RGt(cg, RI(-100))) =>
                  \A y \in 1..(Horizon - 1) : RGe(m[y + 1], m[y])
           /\ REq(cg, RZero) =>
                  /\ \A y \in years : REq(m[y], projection.base_margin)
                  /\ REq(projection.growth_rate, RZero) =>
                         \A y \in years : REq(projected_revenues[y], projected_revenues[1])

\* a positive cost growth rate: the margin of year 10 is below the base margin
C12_Witness ==
    /\ Projected
    /\ RGt(projection.base_margin, RZero)
    /\ RGt(projection.cost_growth_rate, RZero)
    /\ REq(projected_margins[1], projection.base_margin)
    /\ RLt(projected_margins[Horizon], projected_margins[1])

\* C13: the revenue series has one entry per year; its first entry is the
\* baseline times 0.85 for Weak Demand, times 1.15 for Above Average Demand
\* and the baseline itself for Average Demand and for any other tier name;
\* each following entry is the one before it times (1 + growth_rate / 100).
C13_RevenueSeries ==
    Projected =>
        LET r == projected_revenues
            first == IF projection.scenario = "Weak Demand"
                     THEN RMul(projection.base_revenue, RQ(85, 100))
                     ELSE IF projection.scenario = "Above Average Demand"
                     THEN RMul(projection.base_revenue, RQ(115, 100))
                     ELSE projection.base_revenue
        IN /\ DOMAIN r = 1..Horizon
           /\ REq(r[1], first)
           /\ \A y \in 1..(Horizon - 1) :
                 REq(r[y + 1],
                     RMul(r[y], RAdd(RI(1), RDiv(projection.growth_rate, RI(100)))))

\* the Weak tier under a negative growth rate
C13_Witness ==
    /\ Projected
    /\ projection.scenario = "Weak Demand"
    /\ RLt(projection.growth_rate, RZero)
    /\ RLt(projected_revenues[1], projection.base_revenue)
    /\ RLt(projected_revenues[2], projected_revenues[1])


(***************************************************************************)
(* Properties of the catalog totals, checked under SpecCatalog.            *)
(***************************************************************************)
Totalled == pc = "totals"
WellFormed(catalog) ==
    \A i \in 1..Len(catalog) : 0 <= catalog[i].low /\ catalog[i].low <= catalog[i].high

\* C14: for every catalog whose categories have 0 <= low <= high the totals
\* satisfy Low <= Average <= High, Average is exactly (Low + High) / 2, and
\* the empty catalog gives zero for all three.
C14_TotalsOrdered ==
    (Totalled /\ WellFormed(startup_catalog)) =>
        LET t == session_state.startup_costs
        IN /\ RLe(t["Low Cost"], t["Average Cost"])
           /\ RLe(t["Average Cost"], t["High Cost"])
           /\ REq(t["Average Cost"], RDiv(RAdd(t["Low Cost"], t["High Cost"]), RI(2)))
           /\ startup_catalog = <<>> =>
                  /\ REq(t["Low Cost"], RZero)
                  /\ REq(t["Average Cost"], RZero)
                  /\ REq(t["High Cost"], RZero)

\* two categories whose midpoints are no whole numbers in sum
C14_Witness ==
    /\ Totalled
    /\ WellFormed(startup_catalog)
    /\ Len(startup_catalog) = 2
    /\ RLt(session_state.startup_costs["Low Cost"], session_state.startup_costs["Average Cost"])
    /\ RLt(session_state.startup_costs["Average Cost"], session_state.startup_costs["High Cost"])
    /\ (startup_catalog[1].low + startup_catalog[1].high) % 2 = 1


(***************************************************************************)
(* Properties of the financial breakdown, checked under SpecFinancials.    *)
(* The ratios are taken as the decimal fractions the source writes.        *)
(***************************************************************************)
BrokenDown == pc = "broken_down"
Components(m) ==
    RSum(<<m.cogs, m.labor, m.occupancy, m.operating, m.royalties, m.franchise_expense,
           m.gross_profit>>, 7)

Analysed == pc = "analysed"

\* C16: every call site derives the yearly margin by inverse compounding:
\* for the cost growth rate of the analysis and every year 1..10 the margin
\* inside the cash flows of the sensitivity sweep is the margin the
\* projection produced for the same inputs.
C16_SweepMarginIsProjectionMargin ==
    Analysed =>
        \A y \in years :
            /\ REq(session_state.current_margins[y],
                   calculate_adjusted_margins(base_margin_of, base_params.cost_growth)[y])
            /\ REq(sensitivity_margin(base_params.cost_growth, y),
                   session_state.current_margins[y])


(***************************************************************************)
(* Properties of the session across reruns, checked under SpecApp.         *)
(***************************************************************************)
CatalogTotals == startup_costs_of(default_startup_costs)
IsCatalogTotal(v) ==
    \E c \in {"Low Cost", "Average Cost", "High Cost"} : REq(v, CatalogTotals[c])

\* C17: the investment the analysis uses is always one of the three catalog
\* totals, the one of the selected level; whatever the startup view's
\* category amounts have been edited to, the stored totals are those of the
\* catalog and so is the investment used and stored.
C17_InvestmentIsCatalogTotal ==
    /\ "startup_costs" \in DOMAIN session_state =>
           \A c \in {"Low Cost", "Average Cost", "High Cost"} :
               REq(session_state.startup_costs[c], CatalogTotals[c])
    /\ IsNum(initial_investment) =>
           /\ IsCatalogTotal(initial_investment)
           /\ REq(initial_investment, CatalogTotals[widgets.selected_cost])
    /\ "current_investment" \in DOMAIN session_state =>
           IsCatalogTotal(session_state.current_investment)

\* an analysis run after an edit: the edited total is none of the three
C17_Witness ==
    /\ pc = "analysed"
    /\ IsNum(initial_investment)
    /\ widgets.edit.category # 0
    /\ ~IsCatalogTotal(session_state.current_total_investment)
    /\ REq(session_state.current_investment, initial_investment)

\* C18: the report is generated only when an analysis has stored its
\* results, a warning is shown otherwise; the analysis never proceeds
\* before the startup totals exist; and the eleven values the report reads
\* are those of one analysis, the one of the same run.
C18_ReportFromLatestAnalysis ==
    /\ pc = "reported" =>
           /\ report.warning <=> "current_npv" \notin DOMAIN session_state
           /\ ~report.warning =>
                  /\ npv # Unset
                  /\ report.read.current_npv = npv
                  /\ report.read.current_irr = irr
                  /\ report.read.current_payback = payback_period
                  /\ report.read.current_profits = cash_flows
                  /\ report.read.current_investment = initial_investment
                  /\ report.read.current_revenues =
                         calculate_scenario_revenues(RI(BaseRevenue), widgets.selected_revenue,
                                                     widgets.growth_rate)
                  /\ report.read.current_margins =
                         calculate_adjusted_margins(base_margin_of, widgets.cost_growth_rate)
                  /\ report.read.current_cost_growth = widgets.cost_growth_rate
                  /\ report.read.current_growth_rate = widgets.growth_rate
                  /\ report.read.current_revenue_scenario = widgets.selected_revenue
                  /\ report.read.current_cost_scenario = widgets.cost_scenario
    /\ initial_investment # Unset => "startup_costs" \in DOMAIN session_state

\* a report of the Weak tier at the High level
C18_Witness ==
    /\ pc = "reported"
    /\ ~report.warning
    /\ report.read.current_revenue_scenario = "Weak Demand"
    /\ REq(report.read.current_investment, CatalogTotals["High Cost"])
    /\ report.read.current_npv = npv

====
